---- MODULE Spec2Model ----
(***************************************************************************)
(* Secure echo channel of challenge2: the NaCl-box handshake, the          *)
(* length-prefixed frame codec (SecureReader / SecureWriter), the client   *)
(* side (Dial / NewConnection) and the server side (Serve / handleRequest).*)
(* The repository holds two builds of the program, challenge2/main.go and  *)
(* a second main package (unnamed/part_000); `build` selects which one is  *)
(* running.  Transport streams are byte sequences.                         *)
(***************************************************************************)
EXTENDS Integers, Sequences, FiniteSets, TLC

VARIABLES
    build,      \* which of the two main packages is running
    entropy,    \* the private keys crypto/rand will yield, in order
    pc,         \* per endpoint: position in NewConnection / handleRequest / Read / Write
    wire,       \* per endpoint: bytes in flight towards it (its receive side of net.Conn)
    closed,     \* per endpoint: Close() has been called on its net.Conn
    keys,       \* per endpoint: key pair, peer public key, reader and writer shared keys
    rd,         \* per endpoint: locals of SecureReader.Read (msgSize, nonce, len(decryptedMsg))
    p,          \* per endpoint: caller's buffer handed to Read (its written-to prefix)
    plen,       \* per endpoint: len(p) of the caller's buffer
    ret,        \* per endpoint: (n, err) returned by the last Read / Write
    wr,         \* per endpoint: locals of SecureWriter.Write (p, nonce)
    sent,       \* per endpoint: plaintexts handed to Write, in order (history)
    rcvd,       \* per endpoint: p[:n] of every Read that returned err == nil (history)
    io,         \* per endpoint: bytes read from / written to the transport (history)
    budget,     \* per endpoint: Write (w), Read (r) and Close (c) calls its user may still
                \* make, and whether it writes plaintexts at the limit of the length field (big)
    crashed,    \* processes aborted by panic
    logged,     \* per connection: the handleRequest error Serve has logged (Nil: none)
    broken,     \* connections whose transport reports errors
    randFailed  \* processes whose crypto/rand source fails

vars == <<build, entropy, pc, wire, closed, keys, rd, p, plen, ret, wr, sent, rcvd, io,
          budget, crashed, logged, broken, randFailed>>

----------------------------------------------------------------------------
(* Bounds of the model *)

MaxLen == 2            \* longest plaintext a client writes
MaxMsgs == 2           \* Write calls, and Read calls, a user makes
MaxPriv == 6           \* private keys are drawn from 3..MaxPriv
MaxNonce == 2          \* the values rand.Reader can give at one read
MaxFaults == 1         \* faults the environment injects in one run

(* Program constants *)

KeySize == 32          \* [32]byte keys
NonceSize == 24        \* [24]byte nonce
Overhead == 16         \* box.Overhead
SizeBytes == 2         \* binary size of the uint16 msgSize
U16 == 65536           \* uint16 wraps modulo 2^16
SrvBufLen == 65535     \* make([]byte, int64(math.Pow(2, 16)-1))

\* the group standing for curve25519: Z_P^* with base point G
Curve == [P |-> 59, G |-> 2]
Nonces == 1..MaxNonce

Builds == {"challenge2", "part_000"}
Conns == 1..2
Ends == {"cli", "srv"} \X Conns
Cli(c) == <<"cli", c>>
Srv(c) == <<"srv", c>>
Peer(e) == <<IF e[1] = "cli" THEN "srv" ELSE "cli", e[2]>>
\* the server is one process, every client its own
ProcOf(e) == IF e[1] = "srv" THEN <<"srv", 0>> ELSE e
Procs == {<<"srv", 0>>} \cup {Cli(c) : c \in Conns}

Byte == 0..255
Min(a, b) == IF a < b THEN a ELSE b

----------------------------------------------------------------------------
(* Byte-level helpers *)

\* the sum of the bytes s[a..b] (halving, so that long sequences stay shallow)
RECURSIVE SumRange(_, _, _)
SumRange(s, a, b) ==
    IF a > b THEN 0
    ELSE IF a = b THEN s[a]
    ELSE LET h == (a + b) \div 2
         IN  SumRange(s, a, h) + SumRange(s, h + 1, b)

\* the sum of the bytes of s, front to back
RECURSIVE SumSeq(_)
SumSeq(s) == IF s = <<>> THEN 0 ELSE s[1] + SumSeq(Tail(s))

\* the sum of the bytes of s: a key, a nonce or a short body front to back, a
\* long body by halving
Sum(s) == IF Len(s) <= 2 * KeySize THEN SumSeq(s) ELSE SumRange(s, 1, Len(s))

RECURSIVE Pow(_, _)
Pow(b, x) == IF x = 0 THEN 1 ELSE (b * Pow(b, x - 1)) % Curve.P

Take(s, k) == SubSeq(s, 1, k)
\* a slip: the last byte that was read stays on the stream
DropShort(s, k) == SubSeq(s, k, Len(s))
Drop(s, k) == SubSeq(s, k + 1, Len(s))

\* binary.BigEndian encoding of a uint16
PutU16(n) == <<n \div 256, n % 256>>
GetU16(b) == b[1] * 256 + b[2]

\* a [32]byte array holding the group element / scalar n
KeyOf(n) == [i \in 1..KeySize |-> IF i = 1 THEN n ELSE 0]
\* a [24]byte array filled by rand.Reader from the seed n
NonceOf(n) == [i \in 1..NonceSize |-> n]

\* a key or nonce variable not yet assigned
NoKey == <<>>
NoNonce == <<>>

----------------------------------------------------------------------------
(* golang.org/x/crypto/nacl/box, as the program calls it *)

\* curve25519.ScalarMult(dst, scalar, point)
ScalarMult(scalar, point) == KeyOf(Pow(point[1], scalar[1]))

\* salsa.HSalsa20 of the shared point: a fixed bijective transform. Its output
\* is a hash, not a curve point: the last byte marks it, so that in this small
\* group a shared key never equals a public or private key by accident
HSalsa(k) == [KeyOf((k[1] * 7 + 3) % Curve.P) EXCEPT ![KeySize] = 1]

\* a slip: the private key is handed out as the public key
PublicIsPrivate(priv) == priv

\* box.GenerateKey: the public key of a private key
PublicOf(priv) == ScalarMult(priv, KeyOf(Curve.G))

\* the outputs of crypto/rand in one run: private keys that never repeat
Entropies == {[i \in 1..(MaxPriv - 2) |-> 2 + i], [i \in 1..(MaxPriv - 2) |-> MaxPriv + 1 - i]}

\* box.Precompute(sharedKey, peersPublicKey, privateKey)
Precompute(peersPublicKey, privateKey) ==
    HSalsa(ScalarMult(privateKey, peersPublicKey))

\* the authenticator over key, nonce and encrypted body (16 bytes)
Tag(key, nonce, body) ==
    LET t == (31 * key[1] + Sum(nonce) + Sum(body)) % 256
    IN  [j \in 1..Overhead |-> (t + j) % 256]

Stream(key, nonce, i) == (key[1] * 13 + nonce[1] * 5 + i) % 256

\* box.SealAfterPrecomputation(nil, m, &nonce, key): tag, then the encrypted body
Seal(m, nonce, key) ==
    LET body == [i \in 1..Len(m) |-> (m[i] + Stream(key, nonce, i)) % 256] \o <<>>
    IN  Tag(key, nonce, body) \o body

\* a slip: the box is decrypted without checking its authenticator
OpenUnchecked(msg, nonce, key) ==
    IF Len(msg) < Overhead THEN [ok |-> FALSE, m |-> <<>>]
    ELSE LET body == Drop(msg, Overhead)
         IN  [ok |-> TRUE,
              m |-> [i \in 1..Len(body) |->
                       (body[i] + 256 - Stream(key, nonce, i)) % 256] \o <<>>]

\* box.OpenAfterPrecomputation(nil, msg, nonce, key): (plaintext, ok)
Open(msg, nonce, key) ==
    IF Len(msg) < Overhead THEN [ok |-> FALSE, m |-> <<>>]
    ELSE LET body == Drop(msg, Overhead)
         IN  IF Take(msg, Overhead) # Tag(key, nonce, body)
             THEN [ok |-> FALSE, m |-> <<>>]
             ELSE [ok |-> TRUE,
                   m |-> [i \in 1..Len(body) |->
                            (body[i] + 256 - Stream(key, nonce, i)) % 256] \o <<>>]

----------------------------------------------------------------------------
(* NewSecureReader / NewSecureWriter: the shared key each build computes *)

\* challenge2/main.go: box.Precompute(sr.key, priv, pub)
KeyChallenge2(priv, pub) == Precompute(priv, pub)
\* part_000: box.Precompute(sr.key, pub, priv)
KeyPart000(priv, pub) == Precompute(pub, priv)

NewSecureReader(b, priv, pub) ==
    IF b = "challenge2" THEN KeyChallenge2(priv, pub) ELSE KeyPart000(priv, pub)

NewSecureWriter(b, priv, pub) ==
    IF b = "challenge2" THEN KeyChallenge2(priv, pub) ELSE KeyPart000(priv, pub)

----------------------------------------------------------------------------
(* Errors are lists of strings: the error's text, then the text it wraps *)

Nil == <<>>
EOF == <<"EOF">>
ErrUnexpectedEOF == <<"unexpected EOF">>
ErrTransport == <<"transport error">>
ErrRand == <<"rand error">>
ErrDecrypt == <<"could not decrypt box">>
\* fmt.Errorf("<text>: %s", err)
Errorf(text, err) == <<text>> \o err

----------------------------------------------------------------------------
(* The transport: net.Conn *)

Alive(e) == ProcOf(e) \notin crashed
\* the other side closed its net.Conn, or its process died
PeerGone(e) == closed[Peer(e)] \/ ProcOf(Peer(e)) \in crashed

\* io.ReadFull(conn, buf) with len(buf) = k: what it returns, or "block"
ReadFull(e, k) ==
    IF k = 0 THEN "ok"
    ELSE IF e[2] \in broken THEN "err"
    ELSE IF Len(wire[e]) >= k THEN "ok"
    ELSE IF PeerGone(e) THEN (IF Len(wire[e]) = 0 THEN "EOF" ELSE "short")
    ELSE "block"

ReadErrOf(oc) ==
    IF oc = "EOF" THEN EOF ELSE IF oc = "short" THEN ErrUnexpectedEOF ELSE ErrTransport

\* conn.Write(b): the results it can have ("lost": accepted locally, peer gone)
WriteOutcomes(e) ==
    IF closed[e] \/ e[2] \in broken THEN {"err"}
    ELSE IF PeerGone(e) THEN {"lost", "err"}
    ELSE {"ok"}

Sent(e, oc, bytes) ==
    IF oc = "ok" THEN [wire EXCEPT ![Peer(e)] = @ \o bytes] ELSE wire

\* the first n bytes of a buffer whose written-to prefix is b (zeroes after it)
Slice(b, n) == [i \in 1..n |-> IF i <= Len(b) THEN b[i] ELSE 0] \o <<>>
\* the buffer b after src is stored at its start
Overlay(b, src) == src \o SubSeq(b, Len(src) + 1, Len(b))
\* copy(p, src) into a buffer of length n
Copy(b, n, src) == Overlay(b, Take(src, Min(n, Len(src))))

NoRd == [msgSize |-> 0, nonce |-> NoNonce, n |-> 0, consumed |-> 0]
NoWr == [p |-> <<>>, nonce |-> NoNonce]
NoRet == [n |-> 0, err |-> Nil, consumed |-> 0]
NoKeys == [priv |-> NoKey, pub |-> NoKey, peer |-> NoKey, rkey |-> NoKey, wkey |-> NoKey]

----------------------------------------------------------------------------
(* SecureReader.Read(p), one action per blocking transport read *)

\* a transport read of Read failed: challenge2 panics with the error (kept in
\* ret), part_000 returns 0 and the wrapped error
ReadFailed(e, text, err) ==
    /\ wire' = [wire EXCEPT ![e] = <<>>]
    /\ io' = [io EXCEPT ![e].r = @ + Len(wire[e])]
    /\ rd' = [rd EXCEPT ![e] = NoRd]
    /\ IF build = "challenge2"
       THEN /\ crashed' = crashed \cup {ProcOf(e)}
            /\ pc' = [pc EXCEPT ![e] = "panic"]
            /\ ret' = [ret EXCEPT ![e] =
                         [n |-> 0, err |-> err,
                          consumed |-> rd[e].consumed + Len(wire[e])]]
       ELSE /\ ret' = [ret EXCEPT ![e] =
                         [n |-> 0, err |-> Errorf(text, err),
                          consumed |-> rd[e].consumed + Len(wire[e])]]
            /\ pc' = [pc EXCEPT ![e] = "rd_ret"]
            /\ UNCHANGED crashed

\* binary.Read(sr.r, binary.BigEndian, &msgSize)
ReadSize(e) ==
    /\ pc[e] = "rd_size" /\ Alive(e)
    /\ LET oc == ReadFull(e, SizeBytes) IN
        /\ oc # "block"
        /\ IF oc = "ok"
           THEN /\ rd' = [rd EXCEPT ![e].msgSize = GetU16(Take(wire[e], SizeBytes)),
                                    ![e].consumed = SizeBytes]
                /\ wire' = [wire EXCEPT ![e] = Drop(@, SizeBytes)]
                /\ io' = [io EXCEPT ![e].r = @ + SizeBytes]
                /\ pc' = [pc EXCEPT ![e] = "rd_nonce"]
                /\ UNCHANGED <<ret, crashed>>
           ELSE ReadFailed(e, "error reading message size", ReadErrOf(oc))
    /\ UNCHANGED <<build, entropy, closed, keys, p, plen, wr, sent, rcvd, budget, logged,
                   broken, randFailed>>

\* binary.Read(sr.r, binary.BigEndian, nonce)
ReadNonce(e) ==
    /\ pc[e] = "rd_nonce" /\ Alive(e)
    /\ LET oc == ReadFull(e, NonceSize) IN
        /\ oc # "block"
        /\ IF oc = "ok"
           THEN /\ rd' = [rd EXCEPT ![e].nonce = Take(wire[e], NonceSize),
                                    ![e].consumed = @ + NonceSize]
                /\ wire' = [wire EXCEPT ![e] = Drop(@, NonceSize)]
                /\ io' = [io EXCEPT ![e].r = @ + NonceSize]
                /\ pc' = [pc EXCEPT ![e] = "rd_msg"]
                /\ UNCHANGED <<ret, crashed>>
           ELSE ReadFailed(e, "error reading nonce", ReadErrOf(oc))
    /\ UNCHANGED <<build, entropy, closed, keys, p, plen, wr, sent, rcvd, budget, logged,
                   broken, randFailed>>

\* msg := make([]byte, msgSize); io.ReadFull(sr.r, msg);
\* box.OpenAfterPrecomputation(nil, msg, nonce, sr.key); copy(p, decryptedMsg[:])
ReadMsg(e) ==
    /\ pc[e] = "rd_msg" /\ Alive(e)
    /\ LET oc == ReadFull(e, rd[e].msgSize)
           msg == Take(wire[e], rd[e].msgSize)
           dec == Open(msg, rd[e].nonce, keys[e].rkey)
           used == rd[e].consumed + rd[e].msgSize
       IN
        /\ oc # "block"
        /\ IF oc = "ok"
           THEN /\ wire' = [wire EXCEPT ![e] = Drop(@, rd[e].msgSize)]
                /\ io' = [io EXCEPT ![e].r = @ + rd[e].msgSize]
                /\ UNCHANGED crashed
                /\ IF dec.ok
                   THEN /\ p' = [p EXCEPT ![e] = Copy(@, plen[e], dec.m)]
                        /\ rd' = [rd EXCEPT ![e].n = Len(dec.m), ![e].consumed = used]
                        /\ pc' = [pc EXCEPT ![e] = "rd_extra"]
                        /\ UNCHANGED ret
                   ELSE /\ ret' = [ret EXCEPT ![e] =
                                     [n |-> 0, err |-> ErrDecrypt, consumed |-> used]]
                        /\ rd' = [rd EXCEPT ![e] = NoRd]
                        /\ pc' = [pc EXCEPT ![e] = "rd_ret"]
                        /\ UNCHANGED p
           ELSE /\ ReadFailed(e, "erro reading encrypted message", ReadErrOf(oc))
                /\ UNCHANGED p
    /\ UNCHANGED <<build, entropy, closed, keys, plen, wr, sent, rcvd, budget, logged,
                   broken, randFailed>>

\* sr.r.Read(p) after the copy, its result ignored; return len(decryptedMsg), nil
ReadExtra(e) ==
    /\ pc[e] = "rd_extra" /\ Alive(e)
    /\ LET k == IF plen[e] = 0 \/ e[2] \in broken THEN 0
                ELSE Min(plen[e], Len(wire[e]))
           q == Overlay(p[e], Take(wire[e], k))
       IN
        \* a Read of a non-empty buffer waits for a byte, the end or an error
        /\ plen[e] = 0 \/ e[2] \in broken \/ Len(wire[e]) > 0 \/ PeerGone(e)
        /\ wire' = [wire EXCEPT ![e] = Drop(@, k)]
        /\ io' = [io EXCEPT ![e].r = @ + k]
        /\ p' = [p EXCEPT ![e] = q]
        /\ ret' = [ret EXCEPT ![e] =
                     [n |-> rd[e].n, err |-> Nil, consumed |-> rd[e].consumed + k]]
        /\ rcvd' = [rcvd EXCEPT ![e] = Append(@, Slice(q, Min(rd[e].n, plen[e])))]
        /\ rd' = [rd EXCEPT ![e] = NoRd]
        /\ pc' = [pc EXCEPT ![e] = "rd_ret"]
    /\ UNCHANGED <<build, entropy, closed, keys, plen, wr, sent, budget, crashed, logged,
                   broken, randFailed>>

----------------------------------------------------------------------------
(* SecureWriter.Write(p), one action per transport write *)

\* a step of Write failed before the ciphertext: challenge2 panics with the
\* error (kept in ret), part_000 returns 0 and the error
WriteFailed(e, err) ==
    /\ wr' = [wr EXCEPT ![e] = NoWr]
    /\ ret' = [ret EXCEPT ![e] = [n |-> 0, err |-> err, consumed |-> 0]]
    /\ IF build = "challenge2"
       THEN /\ crashed' = crashed \cup {ProcOf(e)}
            /\ pc' = [pc EXCEPT ![e] = "panic"]
       ELSE /\ pc' = [pc EXCEPT ![e] = "wr_ret"]
            /\ UNCHANGED crashed

\* a slip: the length field counts the plaintext only
MsgSizeNoOverhead(m) == Len(m) % U16

\* msgSize := uint16(len(p) + box.Overhead)
MsgSize(m) == (Len(m) + Overhead) % U16

\* binary.Write(sw.w, binary.BigEndian, msgSize)
WriteSize(e) ==
    /\ pc[e] = "wr_size" /\ Alive(e)
    /\ \E oc \in WriteOutcomes(e) :
        LET bytes == PutU16(MsgSize(wr[e].p)) IN
        IF oc = "err"
        THEN WriteFailed(e, ErrTransport) /\ UNCHANGED <<wire, io>>
        ELSE /\ wire' = Sent(e, oc, bytes)
             /\ io' = [io EXCEPT ![e].w = @ + Len(bytes)]
             /\ pc' = [pc EXCEPT ![e] = "wr_nonce"]
             /\ UNCHANGED <<wr, ret, crashed>>
    /\ UNCHANGED <<build, entropy, closed, keys, rd, p, plen, sent, rcvd, budget, logged,
                   broken, randFailed>>

\* the position of end e among the ends
EndIndex(e) == 2 * (e[2] - 1) + (IF e[1] = "cli" THEN 0 ELSE 1)

\* a slip: the nonce is declared and never filled
NonceNotDrawn(e) == {0}

\* io.ReadFull(rand.Reader, nonce[:]) in the Write e is in: rand.Reader never
\* gives the same 24 bytes twice in a run, so the value is made of the place
\* of the read (the end, and which of its Writes) and of an arbitrary part
RandRead(e) ==
    {(EndIndex(e) * MaxMsgs + Len(sent[e]) - 1) * MaxNonce + s : s \in Nonces}

\* io.ReadFull(rand.Reader, nonce[:]); binary.Write(sw.w, binary.BigEndian, nonce[:])
WriteNonce(e) ==
    /\ pc[e] = "wr_nonce" /\ Alive(e)
    /\ IF ProcOf(e) \in randFailed
       THEN WriteFailed(e, ErrRand) /\ UNCHANGED <<wire, io>>
       ELSE \E seed \in RandRead(e), oc \in WriteOutcomes(e) :
            IF oc = "err"
            THEN WriteFailed(e, ErrTransport) /\ UNCHANGED <<wire, io>>
            ELSE /\ wire' = Sent(e, oc, NonceOf(seed))
                 /\ io' = [io EXCEPT ![e].w = @ + NonceSize]
                 /\ wr' = [wr EXCEPT ![e].nonce = NonceOf(seed)]
                 /\ pc' = [pc EXCEPT ![e] = "wr_msg"]
                 /\ UNCHANGED <<ret, crashed>>
    /\ UNCHANGED <<build, entropy, closed, keys, rd, p, plen, sent, rcvd, budget, logged,
                   broken, randFailed>>

\* the count Write returns for n bytes written by sw.w.Write(encryptedMsg)
WriteCount(n) == IF n > Overhead THEN n - Overhead ELSE n

\* encryptedMsg := box.SealAfterPrecomputation(nil, p, &nonce, sw.key);
\* n, err := sw.w.Write(encryptedMsg); the count and the error returned
WriteMsg(e) ==
    /\ pc[e] = "wr_msg" /\ Alive(e)
    /\ \E oc \in WriteOutcomes(e) :
        LET encryptedMsg == Seal(wr[e].p, wr[e].nonce, keys[e].wkey) IN
        /\ wr' = [wr EXCEPT ![e] = NoWr]
        /\ IF oc = "err"
           THEN /\ UNCHANGED <<wire, io>>
                /\ ret' = [ret EXCEPT ![e] =
                             [n |-> WriteCount(0), err |-> ErrTransport,
                              consumed |-> 0]]
                /\ IF build = "challenge2"
                   THEN /\ crashed' = crashed \cup {ProcOf(e)}
                        /\ pc' = [pc EXCEPT ![e] = "panic"]
                   ELSE /\ pc' = [pc EXCEPT ![e] = "wr_ret"]
                        /\ UNCHANGED crashed
           ELSE /\ wire' = Sent(e, oc, encryptedMsg)
                /\ io' = [io EXCEPT ![e].w = @ + Len(encryptedMsg)]
                /\ ret' = [ret EXCEPT ![e] =
                             [n |-> WriteCount(Len(encryptedMsg)), err |-> Nil,
                              consumed |-> 0]]
                /\ pc' = [pc EXCEPT ![e] = "wr_ret"]
                /\ UNCHANGED crashed
    /\ UNCHANGED <<build, entropy, closed, keys, rd, p, plen, sent, rcvd, budget, logged,
                   broken, randFailed>>

----------------------------------------------------------------------------
(* A user of a channel: the calls main() and the tests make on it *)

\* one plaintext of every length up to MaxLen, its bytes 7, 8, ...
Msgs == {[i \in 1..n |-> 6 + i] : n \in 0..MaxLen}
\* the buffers a user reads into: len(buf) = 0, or room for the longest plaintext
BufLens == {0, MaxLen}

\* the plaintexts at the limit of the uint16 length field: the longest whose
\* ciphertext length fits, and the shortest whose ciphertext length does not
BigMsgs == {[i \in 1..n |-> 0] \o <<>> : n \in {U16 - Overhead - 1, U16 - Overhead}}
\* the plaintexts the user of e writes
Plaintexts(e) == IF budget[e].big THEN BigMsgs ELSE Msgs

\* conn.Write(m)
CallWrite(e) ==
    /\ pc[e] = "ready" /\ Alive(e) /\ budget[e].w > 0
    /\ \E m \in Plaintexts(e) :
        /\ wr' = [wr EXCEPT ![e] = [p |-> m, nonce |-> NoNonce]]
        /\ sent' = [sent EXCEPT ![e] = Append(@, m)]
    /\ budget' = [budget EXCEPT ![e].w = @ - 1]
    /\ pc' = [pc EXCEPT ![e] = "wr_size"]
    /\ UNCHANGED <<build, entropy, wire, closed, keys, rd, p, plen, ret, rcvd, io, crashed,
                   logged, broken, randFailed>>

\* buf := make([]byte, n); conn.Read(buf)
CallRead(e) ==
    /\ pc[e] = "ready" /\ Alive(e) /\ budget[e].r > 0
    /\ \E n \in BufLens :
        /\ plen' = [plen EXCEPT ![e] = n]
        /\ p' = [p EXCEPT ![e] = <<>>]
    /\ budget' = [budget EXCEPT ![e].r = @ - 1]
    /\ pc' = [pc EXCEPT ![e] = "rd_size"]
    /\ UNCHANGED <<build, entropy, wire, closed, keys, rd, ret, wr, sent, rcvd, io,
                   crashed, logged, broken, randFailed>>

\* the call returned to the user
Return(e) ==
    /\ pc[e] \in {"rd_ret", "wr_ret"} /\ Alive(e)
    /\ pc' = [pc EXCEPT ![e] = "ready"]
    /\ UNCHANGED <<build, entropy, wire, closed, keys, rd, p, plen, ret, wr, sent, rcvd, io,
                   budget, crashed, logged, broken, randFailed>>

\* conn.Close()
Close(e) ==
    /\ pc[e] = "ready" /\ Alive(e) /\ budget[e].c > 0
    /\ closed' = [closed EXCEPT ![e] = TRUE]
    /\ budget' = [budget EXCEPT ![e].c = @ - 1]
    /\ pc' = [pc EXCEPT ![e] = "closed"]
    /\ UNCHANGED <<build, entropy, wire, keys, rd, p, plen, ret, wr, sent, rcvd, io,
                   crashed, logged, broken, randFailed>>

----------------------------------------------------------------------------
(* Dial / NewConnection: the client's handshake *)

\* net.Dial("tcp", addr) succeeded: the connection waits in the listener's queue
Dial(c) ==
    /\ pc[Cli(c)] = "start" /\ pc[Srv(c)] = "none"
    /\ <<"srv", 0>> \notin crashed
    /\ pc' = [pc EXCEPT ![Cli(c)] = "nc_readkey", ![Srv(c)] = "pending"]
    /\ UNCHANGED <<build, entropy, wire, closed, keys, rd, p, plen, ret, wr, sent, rcvd, io,
                   budget, crashed, logged, broken, randFailed>>

\* NewConnection returned &Conn{} and an error
NcFailed(c, err) ==
    /\ ret' = [ret EXCEPT ![Cli(c)] = [n |-> 0, err |-> err, consumed |-> 0]]
    /\ pc' = [pc EXCEPT ![Cli(c)] = "nc_err"]
    /\ UNCHANGED crashed

\* io.ReadFull(c, serverPubKey[:])
NcReadKey(c) ==
    LET e == Cli(c) oc == ReadFull(e, KeySize) IN
    /\ pc[e] = "nc_readkey" /\ Alive(e)
    /\ oc # "block"
    /\ IF oc = "ok"
       THEN /\ keys' = [keys EXCEPT ![e].peer = Take(wire[e], KeySize)]
            /\ wire' = [wire EXCEPT ![e] = Drop(@, KeySize)]
            /\ io' = [io EXCEPT ![e].r = @ + KeySize]
            /\ pc' = [pc EXCEPT ![e] = "nc_sendkey"]
            /\ UNCHANGED <<ret, crashed>>
       ELSE /\ NcFailed(c, IF build = "challenge2"
                           THEN <<"error reading public key">>
                           ELSE Errorf("error reading public key from server",
                                       ReadErrOf(oc)))
            /\ UNCHANGED <<keys, wire, io>>
    /\ UNCHANGED <<build, entropy, closed, rd, p, plen, wr, sent, rcvd, budget, logged,
                   broken, randFailed>>

\* box.GenerateKey or c.Write(senderPubKey[:]) failed: challenge2 panics,
\* part_000 returns &Conn{} and the error
NcSendFailed(c, text, err) ==
    IF build = "challenge2"
    THEN /\ crashed' = crashed \cup {Cli(c)}
         /\ pc' = [pc EXCEPT ![Cli(c)] = "panic"]
         /\ ret' = [ret EXCEPT ![Cli(c)] = [n |-> 0, err |-> err, consumed |-> 0]]
    ELSE NcFailed(c, Errorf(text, err))

\* box.GenerateKey(rand.Reader); c.Write(senderPubKey[:]);
\* &Conn{NewSecureReader(c, priv, serverPubKey), NewSecureWriter(c, priv, serverPubKey), c}
NcSendKey(c) ==
    LET e == Cli(c) IN
    /\ pc[e] = "nc_sendkey" /\ Alive(e)
    /\ IF e \in randFailed
       THEN NcSendFailed(c, "error on generating key", ErrRand)
            /\ UNCHANGED <<keys, wire, io, entropy>>
       ELSE \E oc \in WriteOutcomes(e) :
            LET priv == KeyOf(Head(entropy)) pub == PublicOf(priv) IN
            /\ entropy' = Tail(entropy)
            /\ IF oc = "err"
               THEN NcSendFailed(c, "error on writing public key", ErrTransport)
                    /\ UNCHANGED <<keys, wire, io>>
               ELSE
                 /\ wire' = Sent(e, oc, pub)
                 /\ io' = [io EXCEPT ![e].w = @ + KeySize]
                 /\ keys' = [keys EXCEPT ![e] =
                      [priv |-> priv, pub |-> pub, peer |-> keys[e].peer,
                       rkey |-> NewSecureReader(build, priv, keys[e].peer),
                       wkey |-> NewSecureWriter(build, priv, keys[e].peer)]]
                 /\ pc' = [pc EXCEPT ![e] = "ready"]
                 /\ UNCHANGED <<ret, crashed>>
    /\ UNCHANGED <<build, closed, rd, p, plen, wr, sent, rcvd, budget, logged,
                   broken, randFailed>>

----------------------------------------------------------------------------
(* Serve / handleRequest: the accept loop and one session per connection *)

\* conn, err := l.Accept(); go func() { handleRequest(conn) ... }()
Accept(c) ==
    /\ pc[Srv(c)] = "pending" /\ Alive(Srv(c))
    /\ pc' = [pc EXCEPT ![Srv(c)] = "hr_sendkey"]
    /\ UNCHANGED <<build, entropy, wire, closed, keys, rd, p, plen, ret, wr, sent, rcvd, io,
                   budget, crashed, logged, broken, randFailed>>

\* handleRequest returned err != nil; Serve's goroutine logs it
HrFailed(c, err) ==
    /\ logged' = [logged EXCEPT ![c] = err]
    /\ pc' = [pc EXCEPT ![Srv(c)] = "failed"]
    /\ UNCHANGED crashed

\* the session panics: the server process is gone
HrPanic(c) ==
    /\ crashed' = crashed \cup {ProcOf(Srv(c))}
    /\ pc' = [pc EXCEPT ![Srv(c)] = "panic"]
    /\ UNCHANGED logged

\* a slip: the session waits for the client's key before it sends its own
HrSendKeyReadFirst(c) ==
    /\ pc[Srv(c)] = "hr_sendkey" /\ Alive(Srv(c))
    /\ keys' = [keys EXCEPT ![Srv(c)].priv = KeyOf(Head(entropy)),
                            ![Srv(c)].pub = PublicOf(KeyOf(Head(entropy)))]
    /\ entropy' = Tail(entropy)
    /\ pc' = [pc EXCEPT ![Srv(c)] = "hr_readkey"]
    /\ UNCHANGED <<build, wire, closed, rd, p, plen, ret, wr, sent, rcvd, io, budget,
                   crashed, logged, broken, randFailed>>

\* box.GenerateKey(rand.Reader); c.Write(recipientPublicKey[:])
HrSendKey(c) ==
    LET e == Srv(c) IN
    /\ pc[e] = "hr_sendkey" /\ Alive(e)
    /\ IF ProcOf(e) \in randFailed
       THEN HrFailed(c, Errorf("error generating key", ErrRand))
            /\ UNCHANGED <<keys, wire, io, entropy>>
       ELSE \E oc \in WriteOutcomes(e) :
            LET priv == KeyOf(Head(entropy)) pub == PublicOf(priv) IN
            /\ entropy' = Tail(entropy)
            /\ IF oc = "err"
               THEN HrFailed(c, Errorf("error writing the public key", ErrTransport))
                    /\ UNCHANGED <<keys, wire, io>>
               ELSE
                 /\ wire' = Sent(e, oc, pub)
                 /\ io' = [io EXCEPT ![e].w = @ + KeySize]
                 /\ keys' = [keys EXCEPT ![e].priv = priv, ![e].pub = pub]
                 /\ pc' = [pc EXCEPT ![e] = "hr_readkey"]
                 /\ UNCHANGED <<crashed, logged>>
    /\ UNCHANGED <<build, closed, rd, p, plen, ret, wr, sent, rcvd, budget,
                   broken, randFailed>>

\* io.ReadFull(c, cliPubKey[:]); sr, sw := NewSecureReader(...), NewSecureWriter(...);
\* buf := make([]byte, 2^16-1)
HrReadKey(c) ==
    LET e == Srv(c) oc == ReadFull(e, KeySize) IN
    /\ pc[e] = "hr_readkey" /\ Alive(e)
    /\ oc # "block"
    /\ IF oc = "ok"
       THEN LET cliPubKey == Take(wire[e], KeySize) IN
            /\ keys' = [keys EXCEPT ![e].peer = cliPubKey,
                  ![e].rkey = NewSecureReader(build, keys[e].priv, cliPubKey),
                  ![e].wkey = NewSecureWriter(build, keys[e].priv, cliPubKey)]
            /\ wire' = [wire EXCEPT ![e] = Drop(@, KeySize)]
            /\ io' = [io EXCEPT ![e].r = @ + KeySize]
            /\ plen' = [plen EXCEPT ![e] = SrvBufLen]
            /\ pc' = [pc EXCEPT ![e] = "rd_size"]
            /\ UNCHANGED <<crashed, logged>>
       ELSE /\ IF build = "challenge2"
               THEN HrPanic(c)
               ELSE HrFailed(c, Errorf("error on reading public key from client",
                                       ReadErrOf(oc)))
            /\ UNCHANGED <<keys, wire, io, plen>>
    /\ UNCHANGED <<build, entropy, closed, rd, p, ret, wr, sent, rcvd, budget, broken,
                   randFailed>>

\* a slip: one byte more than was read is echoed
EchoOneMore(c) == Slice(p[Srv(c)], ret[Srv(c)].n + 1)

\* buf[:rBytes], the plaintext the session writes back
Echo(c) == Slice(p[Srv(c)], ret[Srv(c)].n)

\* rBytes, err := sr.Read(buf) returned: break on io.EOF, return any other
\* error, else sw.Write(buf[:rBytes])
HrAfterRead(c) ==
    LET e == Srv(c) IN
    /\ pc[e] = "rd_ret" /\ Alive(e)
    /\ IF ret[e].err # Nil
       THEN /\ IF ret[e].err = EOF
               THEN pc' = [pc EXCEPT ![e] = "done"] /\ UNCHANGED <<logged, crashed>>
               ELSE HrFailed(c, Errorf(IF build = "challenge2" THEN "failed to read"
                                       ELSE "error reading message from client",
                                       ret[e].err))
            /\ UNCHANGED <<wr, sent>>
       ELSE /\ wr' = [wr EXCEPT ![e] = [p |-> Echo(c), nonce |-> NoNonce]]
            /\ sent' = [sent EXCEPT ![e] = Append(@, Echo(c))]
            /\ pc' = [pc EXCEPT ![e] = "wr_size"]
            /\ UNCHANGED <<logged, crashed>>
    /\ UNCHANGED <<build, entropy, wire, closed, keys, rd, p, plen, ret, rcvd, io,
                   budget, broken, randFailed>>

\* wBytes, err := sw.Write(buf[:rBytes]) returned: challenge2 panics on an
\* error, part_000 returns it; else the loop reads again
HrAfterWrite(c) ==
    LET e == Srv(c) IN
    /\ pc[e] = "wr_ret" /\ Alive(e)
    /\ IF ret[e].err # Nil
       THEN IF build = "challenge2"
            THEN HrPanic(c)
            ELSE HrFailed(c, Errorf("error writing back to client", ret[e].err))
       ELSE pc' = [pc EXCEPT ![e] = "rd_size"] /\ UNCHANGED <<logged, crashed>>
    /\ UNCHANGED <<build, entropy, wire, closed, keys, rd, p, plen, ret, wr, sent, rcvd, io,
                   budget, broken, randFailed>>

----------------------------------------------------------------------------
(* Faults of the environment *)

Faults == Cardinality(broken) + Cardinality(randFailed)
          + Cardinality({c \in Conns : pc[Cli(c)] = "dial_err"})

\* net.Dial failed: Dial returns nil and an error
DialFail(c) ==
    /\ pc[Cli(c)] = "start"
    /\ Faults < MaxFaults
    /\ ret' = [ret EXCEPT ![Cli(c)] = [n |-> 0, err |-> <<"failed to dial">>, consumed |-> 0]]
    /\ pc' = [pc EXCEPT ![Cli(c)] = "dial_err"]
    /\ UNCHANGED <<build, entropy, wire, closed, keys, rd, p, plen, wr, sent, rcvd, io,
                   budget, crashed, logged, broken, randFailed>>

\* the transport of an open connection starts to report errors
Break(c) ==
    /\ c \notin broken
    /\ Faults < MaxFaults
    /\ pc[Srv(c)] # "none"
    /\ broken' = broken \cup {c}
    /\ UNCHANGED <<build, entropy, pc, wire, closed, keys, rd, p, plen, ret, wr, sent, rcvd,
                   io, budget, crashed, logged, randFailed>>

\* the random source of a process starts to fail
RandFail(pr) ==
    /\ pr \notin randFailed
    /\ Faults < MaxFaults
    /\ randFailed' = randFailed \cup {pr}
    /\ UNCHANGED <<build, entropy, pc, wire, closed, keys, rd, p, plen, ret, wr, sent, rcvd,
                   io, budget, crashed, logged, broken>>

\* the byte b with the bit of weight w flipped
FlipBit(b, w) == IF (b \div w) % 2 = 0 THEN b + w ELSE b - w

\* the frame at the head of the stream towards e, when a whole one the peer
\* wrote is there (else the empty sequence)
WholeFrame(e) ==
    IF Len(wire[e]) < SizeBytes THEN <<>>
    ELSE LET n == SizeBytes + NonceSize + GetU16(Take(wire[e], SizeBytes)) IN
         IF Len(wire[e]) < n THEN <<>> ELSE Take(wire[e], n)

\* the frame is one the writer wr produced for one of its plaintexts
Authentic(frame, wr_) ==
    /\ frame # <<>>
    /\ \E i \in DOMAIN sent[wr_] :
          LET nonce == SubSeq(frame, SizeBytes + 1, SizeBytes + NonceSize) IN
          frame = PutU16(MsgSize(sent[wr_][i])) \o nonce
                    \o Seal(sent[wr_][i], nonce, keys[wr_].wkey)

\* the positions of a frame an attacker flips a bit at: the first and the last
\* byte of the nonce, the first and the last byte of the ciphertext
TamperAt(frame) ==
    {SizeBytes + 1, SizeBytes + NonceSize, SizeBytes + NonceSize + 1, Len(frame)}

\* someone on the path flips one bit of the nonce or the ciphertext of a frame
\* before the reader e starts on it
Tamper(e) ==
    /\ pc[e] \in {"ready", "rd_size"}
    /\ Authentic(WholeFrame(e), Peer(e))
    /\ \E i \in TamperAt(WholeFrame(e)), w \in {1, 128} :
          wire' = [wire EXCEPT ![e][i] = FlipBit(@, w)]
    /\ UNCHANGED <<build, entropy, pc, closed, keys, rd, p, plen, ret, wr, sent, rcvd, io,
                   budget, crashed, logged, broken, randFailed>>

----------------------------------------------------------------------------
(* Specifications *)

\* the state after construction: the clients c with calls[c] # NoCalls are
\* about to dial, each with calls[c].w Write calls and calls[c].r Read calls
\* to make and then, if calls[c].c = 1, a Close
NoCalls == [w |-> 0, r |-> 0, c |-> 0, big |-> FALSE, dial |-> FALSE]
Calls(nw, nr) == [w |-> nw, r |-> nr, c |-> 1, big |-> FALSE, dial |-> TRUE]
\* a client that connects and then does nothing more
Idle == [w |-> 0, r |-> 0, c |-> 0, big |-> FALSE, dial |-> TRUE]

InitWith(calls) ==
    /\ build \in Builds
    /\ entropy \in Entropies
    /\ pc = [e \in Ends |-> IF e[1] = "srv" THEN "none"
                            ELSE IF calls[e[2]].dial THEN "start" ELSE "absent"]
    /\ wire = [e \in Ends |-> <<>>]
    /\ closed = [e \in Ends |-> FALSE]
    /\ keys = [e \in Ends |-> NoKeys]
    /\ rd = [e \in Ends |-> NoRd]
    /\ p = [e \in Ends |-> <<>>]
    /\ plen = [e \in Ends |-> 0]
    /\ ret = [e \in Ends |-> NoRet]
    /\ wr = [e \in Ends |-> NoWr]
    /\ sent = [e \in Ends |-> <<>>]
    /\ rcvd = [e \in Ends |-> <<>>]
    /\ io = [e \in Ends |-> [r |-> 0, w |-> 0]]
    /\ budget = [e \in Ends |-> IF e[1] = "cli"
                                THEN [w |-> calls[e[2]].w, r |-> calls[e[2]].r,
                                      c |-> calls[e[2]].c, big |-> calls[e[2]].big]
                                ELSE [w |-> 0, r |-> 0, c |-> 0, big |-> FALSE]]
    /\ crashed = {}
    /\ logged = [c \in Conns |-> Nil]
    /\ broken = {}
    /\ randFailed = {}

\* one client that makes MaxMsgs Write calls and MaxMsgs Read calls
Init == InitWith([c \in Conns |-> IF c = 1 THEN Calls(MaxMsgs, MaxMsgs) ELSE NoCalls])

\* one step of a client, of the accept loop or of a session
ClientStep(c) ==
    \/ Dial(c)
    \/ NcReadKey(c)
    \/ NcSendKey(c)
    \/ CallWrite(Cli(c))
    \/ CallRead(Cli(c))
    \/ Return(Cli(c))
    \/ Close(Cli(c))
    \/ ReadSize(Cli(c))
    \/ ReadNonce(Cli(c))
    \/ ReadMsg(Cli(c))
    \/ ReadExtra(Cli(c))
    \/ WriteSize(Cli(c))
    \/ WriteNonce(Cli(c))
    \/ WriteMsg(Cli(c))

ServerStep(c) ==
    \/ Accept(c)
    \/ HrSendKey(c)
    \/ HrReadKey(c)
    \/ HrAfterRead(c)
    \/ HrAfterWrite(c)
    \/ ReadSize(Srv(c))
    \/ ReadNonce(Srv(c))
    \/ ReadMsg(Srv(c))
    \/ ReadExtra(Srv(c))
    \/ WriteSize(Srv(c))
    \/ WriteNonce(Srv(c))
    \/ WriteMsg(Srv(c))

Next == \E c \in Conns : ClientStep(c) \/ ServerStep(c)

Spec == Init /\ [][Next]_vars

\* two clients of one server: client 1 makes one Write call and one Read
\* call, client 2 connects and stays connected
InitTwo == InitWith([c \in Conns |-> IF c = 1 THEN Calls(1, 1) ELSE Idle])

Fault ==
    \/ \E c \in Conns : DialFail(c)
    \/ \E c \in Conns : Break(c)
    \/ \E pr \in Procs : RandFail(pr)

NextFaulty == Next \/ Fault

\* the two clients and the server, with up to MaxFaults faults
SpecFaulty == InitTwo /\ [][NextFaulty]_vars

\* the codec alone, as the package's tests use it: a writer W and a reader R
\* built from one key pair (priv, pub), on the two ends of one stream
W == Cli(1)
R == Srv(1)

CodecWith(nw, nr, big, alt) ==
    /\ build \in Builds
    /\ pc = [e \in Ends |-> IF e[2] = 1 THEN "ready"
                            ELSE IF e[1] = "srv" THEN "none" ELSE "absent"]
    /\ wire = [e \in Ends |-> <<>>]
    /\ closed = [e \in Ends |-> FALSE]
    /\ \E rnd \in Entropies :
        LET priv == KeyOf(rnd[1]) pub == PublicOf(KeyOf(rnd[2]))
            \* the reader's private key: the writer's, or (alt) another one
            rpriv == IF alt THEN KeyOf(rnd[3]) ELSE priv
        IN
        /\ entropy = Tail(Tail(rnd))
        /\ keys = [e \in Ends |->
                  IF e = W THEN [NoKeys EXCEPT !.priv = priv, !.peer = pub,
                                   !.wkey = NewSecureWriter(build, priv, pub)]
                  ELSE IF e = R THEN [NoKeys EXCEPT !.priv = rpriv, !.peer = pub,
                                   !.rkey = NewSecureReader(build, rpriv, pub)]
                  ELSE NoKeys]
    /\ rd = [e \in Ends |-> NoRd]
    /\ p = [e \in Ends |-> <<>>]
    /\ plen = [e \in Ends |-> 0]
    /\ ret = [e \in Ends |-> NoRet]
    /\ wr = [e \in Ends |-> NoWr]
    /\ sent = [e \in Ends |-> <<>>]
    /\ rcvd = [e \in Ends |-> <<>>]
    /\ io = [e \in Ends |-> [r |-> 0, w |-> 0]]
    /\ budget = [e \in Ends |->
                   IF e = W THEN [w |-> nw, r |-> 0, c |-> 1, big |-> big]
                   ELSE IF e = R THEN [w |-> 0, r |-> nr, c |-> 0, big |-> FALSE]
                   ELSE [w |-> 0, r |-> 0, c |-> 0, big |-> FALSE]]
    /\ crashed = {}
    /\ logged = [c \in Conns |-> Nil]
    /\ broken = {}
    /\ randFailed = {}

\* MaxMsgs Write calls and MaxMsgs Read calls, short plaintexts
InitCodec == CodecWith(MaxMsgs, MaxMsgs, FALSE, FALSE)

NextCodec ==
    \/ CallWrite(W)
    \/ WriteSize(W)
    \/ WriteNonce(W)
    \/ WriteMsg(W)
    \/ Return(W)
    \/ Close(W)
    \/ CallRead(R)
    \/ ReadSize(R)
    \/ ReadNonce(R)
    \/ ReadMsg(R)
    \/ ReadExtra(R)
    \/ Return(R)

SpecCodec == InitCodec /\ [][NextCodec]_vars

\* the codec with one Write and one Read, the reader holding the writer's key
\* or another one, and an attacker on the stream
InitTamper == \E alt \in BOOLEAN : CodecWith(1, 1, FALSE, alt)
NextTamper == NextCodec \/ Tamper(R)
SpecTamper == InitTamper /\ [][NextTamper]_vars

\* the codec with one Write of a plaintext at the limit of the length field,
\* and one Read call
InitBig == CodecWith(1, 1, TRUE, FALSE)
SpecBig == InitBig /\ [][NextCodec]_vars

\* what the Go scheduler gives every goroutine: a step that stays possible is
\* taken.  The calls a user makes (CallWrite, CallRead, Close) are its choice.
ClientRun(c) ==
    \/ Dial(c)
    \/ NcReadKey(c)
    \/ NcSendKey(c)
    \/ Return(Cli(c))
    \/ ReadSize(Cli(c))
    \/ ReadNonce(Cli(c))
    \/ ReadMsg(Cli(c))
    \/ ReadExtra(Cli(c))
    \/ WriteSize(Cli(c))
    \/ WriteNonce(Cli(c))
    \/ WriteMsg(Cli(c))

Fairness(c) == WF_vars(ClientRun(c)) /\ WF_vars(ServerStep(c))

\* one client that makes one Write call and one Read call, and the server,
\* over a reliable transport, fairly scheduled
InitOne == InitWith([c \in Conns |-> IF c = 1 THEN Calls(1, 1) ELSE NoCalls])
FairSpec == InitOne /\ [][Next]_vars /\ Fairness(1)

\* two clients of one server, client 1 making MaxMsgs Write calls and one Read
\* call while client 2 stays connected
InitBusy == InitWith([c \in Conns |-> IF c = 1 THEN Calls(MaxMsgs, 1) ELSE Idle])
SpecBusy == InitBusy /\ [][Next]_vars

\* two clients of one server: client 1 connects, never closes, and may stop at
\* any point (no step of it is ever forced); client 2 makes one Write call and
\* one Read call and is fairly scheduled, as are the accept loop and both
\* sessions
InitStall == InitWith([c \in Conns |-> IF c = 2 THEN Calls(1, 1) ELSE Idle])
FairStall ==
    InitStall /\ [][Next]_vars /\ WF_vars(ServerStep(1)) /\ Fairness(2)

----------------------------------------------------------------------------
(* Claims *)

\* the handshake of connection c is complete on both sides
ClientShaken(c) == pc[Cli(c)] \notin {"absent", "start", "dial_err", "nc_readkey",
                                      "nc_sendkey", "nc_err"}
                   /\ keys[Cli(c)].pub # NoKey
ServerShaken(c) == keys[Srv(c)].peer # NoKey

\* C1: the client has written the one message m and is in its first Read, with
\* room for m
C1_Reading(c, m) ==
    /\ sent[Cli(c)] = <<m>>
    /\ pc[Cli(c)] = "rd_size"
    /\ budget[Cli(c)].r = 0
    /\ plen[Cli(c)] >= Len(m)

\* C1: the session has read m and written m back, and the client's Read has
\* returned exactly m
C1_Echoed(c, m) ==
    /\ rcvd[Srv(c)] # <<>> /\ rcvd[Srv(c)][1] = m
    /\ sent[Srv(c)] # <<>> /\ sent[Srv(c)][1] = m
    /\ rcvd[Cli(c)] # <<>> /\ rcvd[Cli(c)][1] = m

\* C1 (as claimed): End-to-end echo. Whenever the client has written one message
\* m and then reads with a buffer of at least len(m) bytes, the session
\* eventually reads m and writes m back and the client's Read eventually
\* returns exactly m.
C1_EchoCompletes == \A m \in Msgs : C1_Reading(1, m) ~> C1_Echoed(1, m)

\* C2, ordering: a session has written its 32-byte public key before it reads
\* a byte; a client has read 32 bytes, the session's public key, before it
\* writes a byte; a byte beyond the public key (a frame) is written only by
\* a side that has written its own public key and read its peer's.
C2_Order ==
    \A c \in Conns :
        /\ io[Srv(c)].r > 0 => io[Srv(c)].w >= KeySize
        /\ io[Cli(c)].w > 0 =>
              io[Cli(c)].r >= KeySize /\ keys[Cli(c)].peer = keys[Srv(c)].pub
        /\ io[Srv(c)].r >= KeySize => keys[Srv(c)].peer = keys[Cli(c)].pub
        /\ \A e \in {Cli(c), Srv(c)} :
              io[e].w > KeySize =>
                  /\ io[e].r >= KeySize
                  /\ io[Peer(e)].w >= KeySize
                  /\ keys[e].peer = keys[Peer(e)].pub

\* C2: Handshake ordering and completion. The ordering above holds in every
\* state, and on a reliable transport a dialled connection always reaches the
\* state where both sides have completed the handshake.
C2_Handshake ==
    /\ []C2_Order
    /\ \A c \in Conns :
          (pc[Cli(c)] = "nc_readkey") ~> (ClientShaken(c) /\ ServerShaken(c))

\* C2 witness: both sides have exchanged keys and the client has sent a frame
C2_Witness ==
    /\ ClientShaken(1) /\ ServerShaken(1)
    /\ io[Cli(1)].w > KeySize
    /\ keys[Cli(1)].peer = keys[Srv(1)].pub /\ keys[Srv(1)].peer = keys[Cli(1)].pub

\* C3 (as claimed): Key agreement. Whenever both sides of a connection have
\* completed the handshake, the shared keys of the client's reader and writer
\* equal the shared keys of the session's reader and writer.
C3_KeyAgreement ==
    \A c \in Conns :
        (ClientShaken(c) /\ ServerShaken(c)) =>
            /\ keys[Cli(c)].rkey = keys[Srv(c)].wkey
            /\ keys[Cli(c)].wkey = keys[Srv(c)].rkey
            /\ keys[Cli(c)].rkey = keys[Cli(c)].wkey

\* C4: the writer has completed its one Write(m) and the reader's first Read,
\* into a buffer of at least len(m) bytes, has ended
C4_OneWriteOneRead(m) ==
    /\ sent[W] = <<m>>
    /\ pc[W] \in {"wr_ret", "ready", "closed"}
    /\ pc[R] \in {"rd_ret", "panic"}
    /\ budget[R].r = MaxMsgs - 1
    /\ plen[R] >= Len(m)

\* C4: Round-trip. For a writer and a reader holding the same key over one
\* stream, when one Write(m) has been followed by one Read(p) with
\* len(p) >= len(m), the Read has returned n = len(m), no error, and p[0..n) = m.
C4_RoundTrip ==
    \A m \in Msgs :
        C4_OneWriteOneRead(m) =>
            /\ pc[R] = "rd_ret"
            /\ ret[R].err = Nil
            /\ ret[R].n = Len(m)
            /\ Slice(p[R], ret[R].n) = m

\* C4 witness: the longest plaintext has made the round trip
C4_Witness ==
    \E m \in Msgs :
        /\ Len(m) = MaxLen
        /\ C4_OneWriteOneRead(m)
        /\ rcvd[R] = <<m>>


\* C5 (as claimed): Exact frame. When a Read into a buffer with room for the
\* plaintext has returned without error, it has taken from the stream exactly
\* the 2 length bytes, the 24 nonce bytes and the ciphertext of one frame; it
\* is the k-th successful Read of its end and its buffer starts with the k-th
\* plaintext the peer wrote; and a fresh buffer (a client's) has no byte
\* written beyond the n returned.
C5_ExactFrame ==
    \A e \in Ends :
        (pc[e] = "rd_ret" /\ ret[e].err = Nil /\ plen[e] >= ret[e].n) =>
            LET k == Len(rcvd[e]) IN
            /\ ret[e].consumed = SizeBytes + NonceSize + Overhead + ret[e].n
            /\ k <= Len(sent[Peer(e)])
            /\ Slice(p[e], ret[e].n) = sent[Peer(e)][k]
            /\ e[1] = "cli" => Len(p[e]) <= ret[e].n

\* the last Read of e ended at the end of the stream, before any byte of a
\* frame header
C6_AtEndOfStream(e) ==
    /\ pc[e] \in {"rd_ret", "panic", "done", "failed"}
    /\ ret[e].err # Nil
    /\ ret[e].err[Len(ret[e].err)] = "EOF"
    /\ ret[e].consumed = 0

\* C6 (as claimed): End of stream. A Read that finds the stream exhausted
\* before any byte of a frame header returns exactly io.EOF and does not abort
\* the process; a session whose Read ended so takes the normal-termination
\* branch, and nothing is logged for it.
C6_EndOfStream ==
    \A e \in Ends :
        C6_AtEndOfStream(e) =>
            /\ ret[e].err = EOF
            /\ pc[e] # "panic"
            /\ ProcOf(e) \notin crashed
            /\ e[1] = "srv" => pc[e] # "failed" /\ logged[e[2]] = Nil

\* the session of connection c has ended on a failure
C7_SessionFailed(c) == pc[Srv(c)] \in {"failed", "panic"}

\* C7 (as claimed): Session fault isolation. When a session has ended on a
\* failure, the failure has been logged and the server process is running:
\* the accept loop and every other session are alive.
C7_FaultIsolation ==
    \A c \in Conns :
        C7_SessionFailed(c) =>
            /\ logged[c] # Nil
            /\ <<"srv", 0>> \notin crashed
            /\ \A d \in Conns \ {c} : Alive(Srv(d))

Range(s) == {s[i] : i \in DOMAIN s}

\* both sessions have completed their handshake with their clients
C8_BothShaken == \A c \in Conns : ClientShaken(c) /\ ServerShaken(c)

\* C8, keys: two sessions of one server never hold the same key pair nor the
\* same shared key, and a session's keys are derived from its own key pair and
\* its own client's public key.
C8_OwnKeys ==
    /\ \A c, d \in Conns :
          (c # d /\ keys[Srv(c)].priv # NoKey /\ keys[Srv(d)].priv # NoKey) =>
              /\ keys[Srv(c)].priv # keys[Srv(d)].priv
              /\ keys[Srv(c)].pub # keys[Srv(d)].pub
    /\ \A c, d \in Conns :
          (c # d /\ ServerShaken(c) /\ ServerShaken(d)) =>
              /\ keys[Srv(c)].rkey # keys[Srv(d)].rkey
              /\ keys[Srv(c)].wkey # keys[Srv(d)].wkey
    /\ \A c \in Conns :
          ServerShaken(c) =>
              /\ keys[Srv(c)].peer = keys[Cli(c)].pub
              /\ keys[Srv(c)].rkey =
                     NewSecureReader(build, keys[Srv(c)].priv, keys[Cli(c)].pub)

\* C8, echoes: every message a session writes back to its client, and every
\* message a client's Read (into a buffer with room for it) returns, is a
\* message that same client has sent.
C8_OwnEchoes ==
    \A c \in Conns :
        /\ Range(sent[Srv(c)]) \subseteq Range(sent[Cli(c)])
        /\ (pc[Cli(c)] = "rd_ret" /\ ret[Cli(c)].err = Nil
              /\ plen[Cli(c)] >= ret[Cli(c)].n) =>
                Slice(p[Cli(c)], ret[Cli(c)].n) \in Range(sent[Cli(c)])

\* C8 (as claimed): Session independence. Each session of one server has its
\* own key pair and shared key, and while two clients are connected every
\* message a client gets back is the echo of a message that same client sent.
C8_Independence == C8_OwnKeys /\ (C8_BothShaken => C8_OwnEchoes)

\* connection 1 has been accepted and stays open: its session waits for
\* whatever its client sends next
C9_Waiting == pc[Srv(1)] \notin {"none", "pending"} /\ ~closed[Cli(1)]

\* C9, the accept loop alone: a second client that dials while connection 1 is
\* open is accepted and shakes hands, wherever the first client has stopped
C9_SecondAccepted ==
    (C9_Waiting /\ pc[Cli(2)] = "nc_readkey") ~> (ClientShaken(2) /\ ServerShaken(2))

C10_Finished(c) == pc[Srv(c)] \in {"done", "failed"}

\* C10 (as claimed): Server session shutdown. In every state where a session
\* has finished, the connection of that session has been closed.
C10_ClosedWhenFinished ==
    \A c \in Conns : C10_Finished(c) => closed[Srv(c)]

\* the plaintext of the last Write call of e does not fit the length field
C11_LastOversized(e) ==
    /\ sent[e] # <<>>
    /\ Len(sent[e][Len(sent[e])]) + Overhead >= U16

\* C11 (as claimed): Oversized message. A Write of a plaintext whose length
\* plus the 16-byte tag exceeds the 16-bit length field writes no byte (it
\* never gets past the length header) and ends with an error.
C11_Oversized ==
    \A e \in Ends :
        C11_LastOversized(e) =>
            /\ pc[e] \notin {"wr_nonce", "wr_msg"}
            /\ pc[e] \in {"wr_ret", "ready", "closed"} =>
                  ret[e].err # Nil /\ io[e].w = 0

\* C12 (as claimed): Buffer too small. A Read never returns success with a
\* count greater than len(buffer): a frame whose plaintext is longer than the
\* caller's buffer makes it fail.
C12_BufferTooSmall ==
    \A e \in Ends :
        (pc[e] = "rd_ret" /\ ret[e].err = Nil) => ret[e].n <= plen[e]

\* C13 (as claimed): Write's return count. A Write that has written its whole
\* frame returns exactly len(p), the length of the plaintext it was given.
C13_WriteCount ==
    \A e \in Ends :
        (pc[e] = "wr_ret" /\ ret[e].err = Nil) =>
            ret[e].n = Len(sent[e][Len(sent[e])])

\* the bytes of one whole frame carrying the plaintext m
C14_FrameLen(m) == SizeBytes + NonceSize + Overhead + Len(m)

\* the bytes of the whole frames of the plaintexts ms[i], i in S
RECURSIVE C14_FramesLen(_, _)
C14_FramesLen(ms, S) ==
    IF S = {} THEN 0
    ELSE LET i == CHOOSE j \in S : TRUE
         IN  C14_FrameLen(ms[i]) + C14_FramesLen(ms, S \ {i})

\* C14 (as claimed): Frame atomicity on the wire. Whenever an end that has
\* sent its public key is not inside a Write, the bytes it has put on the
\* transport after the handshake are those of whole frames: every Write call
\* made so far has contributed its complete frame or nothing.
C14_WholeFrames ==
    \A e \in Ends :
        (io[e].w >= KeySize /\ pc[e] \notin {"wr_size", "wr_nonce", "wr_msg"}) =>
            \E S \in SUBSET DOMAIN sent[e] :
                io[e].w = KeySize + C14_FramesLen(sent[e], S)

\* the frame that e, about to read the ciphertext, is reading was not produced
\* by its peer's writer under the key e holds
C15_Forged(e) ==
    LET frame == PutU16(rd[e].msgSize) \o rd[e].nonce \o Take(wire[e], rd[e].msgSize)
    IN  keys[e].rkey # keys[Peer(e)].wkey \/ ~Authentic(frame, Peer(e))

\* C15: Authentication failure. Every step of Read that takes in the
\* ciphertext of a frame sealed under a different key, or whose nonce or
\* ciphertext is not what the writer produced, ends the Read with the
\* authentication error and count 0, and leaves the caller's buffer and the
\* plaintexts delivered as they were.
C15_AuthFailure ==
    [][\A e \in Ends :
        (pc[e] = "rd_msg" /\ pc'[e] # "rd_msg" /\ ReadFull(e, rd[e].msgSize) = "ok"
           /\ C15_Forged(e)) =>
            /\ pc'[e] = "rd_ret"
            /\ ret'[e].err = ErrDecrypt /\ ret'[e].n = 0
            /\ p'[e] = p[e] /\ rcvd'[e] = rcvd[e]]_vars

\* C15 witness: the reader holds the writer's key and its Read of the one
\* frame written (one bit of it flipped on the way) has failed authentication
C15_Witness ==
    /\ keys[R].rkey = keys[W].wkey
    /\ pc[R] = "rd_ret" /\ ret[R].err = ErrDecrypt /\ ret[R].n = 0
    /\ Len(sent[W]) = 1 /\ rcvd[R] = <<>> /\ p[R] = <<>>

\* the handshake of client c has failed: Dial could not connect, or
\* NewConnection ended before it built the Conn
C16_HandshakeFailed(c) ==
    \/ pc[Cli(c)] \in {"dial_err", "nc_err"}
    \/ pc[Cli(c)] = "panic" /\ keys[Cli(c)].rkey = NoKey

\* C16 (as claimed): Client handshake failure. When the handshake of a client
\* has failed, Dial has returned an error to its caller, no reader or writer
\* has been built, and the client process has not been aborted.
C16_ClientHandshakeFailure ==
    \A c \in Conns :
        C16_HandshakeFailed(c) =>
            /\ pc[Cli(c)] # "panic" /\ Cli(c) \notin crashed
            /\ ret[Cli(c)].err # Nil
            /\ keys[Cli(c)].rkey = NoKey /\ keys[Cli(c)].wkey = NoKey

\* the private key and the shared keys end e holds after the step (the group
\* of the model has 58 elements, so a key held by another end may coincide
\* with a written value by accident; an end can only write what it holds)
C17_Secrets(e) ==
    {keys'[e].priv, keys'[e].rkey, keys'[e].wkey} \ {NoKey}

\* the step delivers k bytes written by e to the transport
C17_Writes(e, k) ==
    /\ k > 0 /\ io'[e].w = io[e].w + k
    /\ Len(wire'[Peer(e)]) = Len(wire[Peer(e)]) + k

\* C17, one write: what e puts on the transport is, as its first write, its own
\* public key, and afterwards the length header, the nonce or the sealed
\* ciphertext of the plaintext it is writing; it is never the private key or a
\* shared key the writer holds.
C17_WriteOk(e, k) ==
    LET x == SubSeq(wire'[Peer(e)], Len(wire[Peer(e)]) + 1, Len(wire'[Peer(e)])) IN
    /\ x \notin C17_Secrets(e)
    /\ IF io[e].w = 0
       THEN x = keys'[e].pub /\ x = PublicOf(keys'[e].priv)
       ELSE /\ x # keys[e].pub
            /\ \/ pc[e] = "wr_size" /\ x = PutU16(MsgSize(wr[e].p))
               \/ pc[e] = "wr_nonce" /\ x = wr'[e].nonce
               \/ pc[e] = "wr_msg" /\ x = Seal(wr[e].p, wr[e].nonce, keys[e].wkey)

\* C17, key pairs: no two ends hold the same private key
C17_OwnKeyPairs ==
    \A e, f \in Ends :
        (e # f /\ keys[e].priv # NoKey) => keys[e].priv # keys[f].priv

\* C17: Key confidentiality on the wire. Every value an end writes to the
\* transport is its own public key (once, first) or a part of an encrypted
\* frame, never a private or shared key, and a key pair generated for one
\* connection is never used for another.
C17_KeyConfidentiality ==
    /\ []C17_OwnKeyPairs
    /\ [][\A e \in Ends : \A k \in 1..(KeySize + MaxLen) :
            C17_Writes(e, k) => C17_WriteOk(e, k)]_vars

\* C17 witness: both sessions have exchanged keys with their clients, and a
\* client and its session have each written a frame
C17_Witness ==
    /\ C8_BothShaken
    /\ io[Cli(1)].w > KeySize + SizeBytes + NonceSize
    /\ io[Srv(1)].w > KeySize + SizeBytes + NonceSize

\* the whole frames at the head of a stream that starts at a frame
RECURSIVE C18_Frames(_)
C18_Frames(s) ==
    IF Len(s) < SizeBytes + NonceSize THEN <<>>
    ELSE LET n == SizeBytes + NonceSize + GetU16(Take(s, SizeBytes)) IN
         IF Len(s) < n THEN <<>>
         ELSE <<[nonce |-> SubSeq(s, SizeBytes + 1, SizeBytes + NonceSize),
                 frame |-> Take(s, n)]>> \o C18_Frames(Drop(s, n))

\* C18: Nonce freshness. Every Write draws a new nonce: as long as the reader
\* has taken nothing from the stream, the frames the writer has put on it
\* under its key carry pairwise different nonces and are pairwise different
\* frames, also when they carry the same plaintext.
C18_NonceFreshness ==
    io[R].r = 0 =>
        LET fs == C18_Frames(wire[R]) IN
        /\ Len(fs) <= Len(sent[W])
        /\ \A i \in DOMAIN fs :
              fs[i].frame = PutU16(MsgSize(sent[W][i])) \o fs[i].nonce
                              \o Seal(sent[W][i], fs[i].nonce, keys[W].wkey)
        /\ \A i, j \in DOMAIN fs :
              i < j => fs[i].nonce # fs[j].nonce /\ fs[i].frame # fs[j].frame

\* C18 witness: the writer has written the same non-empty plaintext twice and
\* both frames are on the stream
C18_Witness ==
    /\ io[R].r = 0 /\ Len(C18_Frames(wire[R])) = 2
    /\ Len(sent[W]) = 2 /\ sent[W][1] = sent[W][2] /\ sent[W][1] # <<>>

\* one client that writes often enough for its session to go round the echo
\* loop twice (the Read of the session takes bytes of the frame that follows
\* the one it returns), then reads once
InitLoop == InitWith([c \in Conns |-> IF c = 1 THEN Calls(MaxMsgs + 1, 1) ELSE NoCalls])
SpecLoop == InitLoop /\ [][Next]_vars

\* the number of whole frames session c has put on the transport
C19_Written(c) ==
    LET e == Srv(c) IN
    Cardinality({k \in DOMAIN sent[e] :
                   io[e].w >= KeySize + C14_FramesLen(sent[e], 1..k)})

\* the number of frames session c has read successfully
C19_Read(c) == Len(rcvd[Srv(c)])

\* C19: Echo-loop alternation. A session has written at most as many frames
\* as it has read successfully and at least that number minus one; the i-th
\* frame it writes carries a plaintext as long as that of the i-th frame it
\* read; it writes no frame before it has read the client's public key.
C19_Alternation ==
    \A c \in Conns :
        LET e == Srv(c) IN
        /\ Len(sent[e]) <= C19_Read(c)
        /\ C19_Written(c) <= C19_Read(c)
        /\ C19_Written(c) >= C19_Read(c) - 1
        /\ \A i \in DOMAIN sent[e] : Len(sent[e][i]) = Len(rcvd[e][i])
        /\ (sent[e] # <<>> \/ io[e].w > KeySize) =>
               io[e].r >= KeySize /\ keys[e].peer # NoKey

\* C19 witness: a session has gone round the loop twice: it has read two
\* frames, the first of a non-empty plaintext, and has written both echoes
C19_Witness ==
    \E c \in Conns :
        /\ C19_Read(c) = 2 /\ C19_Written(c) = 2
        /\ rcvd[Srv(c)][1] # <<>>

\* the codec with MaxMsgs Write calls and MaxMsgs Read calls, the reader
\* holding the writer's key or another one, and an attacker on the stream
InitAlign == \E alt \in BOOLEAN : CodecWith(MaxMsgs, MaxMsgs, FALSE, alt)
SpecAlign == InitAlign /\ [][NextTamper]_vars

\* the bytes of the first k frames the writer wrote
C20_Prefix(k) == C14_FramesLen(sent[W], 1..k)

\* the Read of the reader has returned the authentication error
C20_DecodeFailed == pc[R] = "rd_ret" /\ ret[R].err = ErrDecrypt

\* C20: A failed decode leaves the reader frame-aligned. When a Read that
\* started at the k+1-th frame returns the authentication error, it returns
\* count 0 and has stored nothing in the caller's buffer, it has taken from
\* the stream exactly that frame (header, nonce and the declared length of
\* ciphertext), and what is left on the stream is what the writer wrote
\* after it: the following frames, as they were written.
C20_FrameAligned ==
    C20_DecodeFailed =>
        /\ ret[R].n = 0 /\ p[R] = <<>>
        /\ \A k \in 0..(Len(sent[W]) - 1) :
              io[R].r - ret[R].consumed = C20_Prefix(k) =>
                /\ io[R].r = C20_Prefix(k + 1)
                /\ Len(wire[R]) = io[W].w - io[R].r
                /\ LET fs == C18_Frames(wire[R]) IN
                   \A i \in DOMAIN fs :
                      fs[i].frame = PutU16(MsgSize(sent[W][k + 1 + i])) \o fs[i].nonce
                          \o Seal(sent[W][k + 1 + i], fs[i].nonce, keys[W].wkey)

\* C20 witness: the first Read failed to authenticate the first frame, of a
\* non-empty plaintext, and the second frame is on the stream behind it
C20_Witness ==
    /\ C20_DecodeFailed /\ Len(sent[W]) = 2 /\ sent[W][1] # <<>>
    /\ io[R].r = ret[R].consumed
    /\ Len(C18_Frames(wire[R])) = 1

====
